---- MODULE Spec2Model ----
(***************************************************************************)
(* Model of the quotaservice configuration model (package config) and of  *)
(* the admin REST dispatcher (package admin).                              *)
(*                                                                         *)
(* Strings are sequences of one-character strings, so that splitting and   *)
(* concatenation are computed.  A Go pointer that may be nil is a sequence *)
(* of length 0 (nil) or 1 (the pointee).  NamespaceConfig objects live in  *)
(* heap, a function from object ids to records; a bucket's namespace       *)
(* back-pointer is <<>> or <<id>>.  A Go int (64 bit) is four 16-bit limbs,*)
(* most significant first; an int32 is the two low limbs.                  *)
(***************************************************************************)
EXTENDS Integers, Sequences, FiniteSets, TLC

VARIABLES s, heap, req, locals, calls, w, pc, input, p, s2, eq

vars == <<s, heap, req, locals, calls, w, pc, input, p, s2, eq>>

adminVars == <<req, locals, calls, w>>

configVars == <<pc, input, p, s2, eq>>

-----------------------------------------------------------------------------
(* Bounds of the model *)

MaxParamsLen == 3

MaxNamespaces == 2

MaxBuckets == 2

-----------------------------------------------------------------------------
(* Sentinel names, configs.proto lines 67-71 *)

GlobalNamespace == <<"_","_","_","G","L","O","B","A","L","_","_","_">>

DefaultBucketName ==
    <<"_","_","_","D","E","F","A","U","L","T","_","B","U","C","K","E","T","_","_","_">>

DynamicBucketTemplateName ==
    <<"_","_","_","D","Y","N","A","M","I","C","_","B","U","C","K","E","T","_","T","P","L","_","_","_">>

-----------------------------------------------------------------------------
(* Go int and int32 *)

Limb == 2^16

GoInt(hi, lo) == <<0, 0, hi, lo>>

IntToInt32(v) == <<v[3], v[4]>>

Int32ToInt(v) ==
    LET ext == IF v[1] >= Limb \div 2 THEN Limb - 1 ELSE 0
    IN  <<ext, ext, v[1], v[2]>>

FitsInt32(v) == Int32ToInt(IntToInt32(v)) = v

-----------------------------------------------------------------------------
(* Map iteration order: Go ranges over a map in an unspecified order.      *)

Perms(S) ==
    {f \in [1..Cardinality(S) -> S] : \A i, j \in 1..Cardinality(S) : f[i] = f[j] => i = j}

-----------------------------------------------------------------------------
(* BucketConfig *)

BucketToProtoMethod(b) ==
    [Size                |-> b.Size,
     FillRate            |-> b.FillRate,
     WaitTimeoutMillis   |-> b.WaitTimeoutMillis,
     MaxIdleMillis       |-> b.MaxIdleMillis,
     MaxDebtMillis       |-> b.MaxDebtMillis,
     MaxTokensPerRequest |-> b.MaxTokensPerRequest,
     Name                |-> b.Name]

BucketApplyDefaultsNoTokens(b) ==
    LET b1 == IF b.Size = 0 THEN [b EXCEPT !.Size = 100] ELSE b
        b2 == IF b1.FillRate = 0 THEN [b1 EXCEPT !.FillRate = 50] ELSE b1
        b3 == IF b2.WaitTimeoutMillis = 0 THEN [b2 EXCEPT !.WaitTimeoutMillis = 1000] ELSE b2
        b4 == IF b3.MaxIdleMillis = 0 THEN [b3 EXCEPT !.MaxIdleMillis = -1] ELSE b3
        b5 == IF b4.MaxDebtMillis = 0 THEN [b4 EXCEPT !.MaxDebtMillis = 10000] ELSE b4
    IN  b5

BucketApplyDefaults(b) ==
    LET b1 == IF b.Size = 0 THEN [b EXCEPT !.Size = 100] ELSE b
        b2 == IF b1.FillRate = 0 THEN [b1 EXCEPT !.FillRate = 50] ELSE b1
        b3 == IF b2.WaitTimeoutMillis = 0 THEN [b2 EXCEPT !.WaitTimeoutMillis = 1000] ELSE b2
        b4 == IF b3.MaxIdleMillis = 0 THEN [b3 EXCEPT !.MaxIdleMillis = -1] ELSE b3
        b5 == IF b4.MaxDebtMillis = 0 THEN [b4 EXCEPT !.MaxDebtMillis = 10000] ELSE b4
        b6 == IF b5.MaxTokensPerRequest = 0
              THEN [b5 EXCEPT !.MaxTokensPerRequest = b5.FillRate] ELSE b5
    IN  b6

FullyQualifiedName(namespace, bucketName) == namespace \o <<":">> \o bucketName

FQN(b, h) ==
    IF b.namespace = <<>>
    THEN FullyQualifiedName(GlobalNamespace, DefaultBucketName)
    ELSE FullyQualifiedName(h[b.namespace[1]].Name, b.Name)

-----------------------------------------------------------------------------
(* Conversion to the proto representation.  bp is a nilable *BucketConfig. *)

bucketToProto(name, bp) ==
    IF bp = <<>> THEN <<>> ELSE <<BucketToProtoMethod(bp[1])>>

\* buckets is a nilable map; ord is the order in which range visits its keys
bucketMapToProto(buckets, ord) ==
    [i \in 1..Len(ord) |-> bucketToProto(ord[i], <<buckets[1][ord[i]]>>)]

BucketKeys(n) == IF n.Buckets = <<>> THEN {} ELSE DOMAIN n.Buckets[1]

NamespaceToProto(n, ord) ==
    [DefaultBucket         |-> bucketToProto(DefaultBucketName, n.DefaultBucket),
     DynamicBucketTemplate |-> bucketToProto(DynamicBucketTemplateName, n.DynamicBucketTemplate),
     MaxDynamicBuckets     |-> IntToInt32(n.MaxDynamicBuckets),
     Buckets               |-> bucketMapToProto(n.Buckets, ord),
     Name                  |-> n.Name]

\* o.ns is the order of the namespace keys, o.b[k] the order of the bucket
\* keys of the namespace stored under key k
namespaceMapToProto(namespaces, h, o) ==
    [i \in 1..Len(o.ns) |-> <<NamespaceToProto(h[namespaces[o.ns[i]]], o.b[o.ns[i]])>>]

ToProto(c, h, o) ==
    [Version             |-> IntToInt32(c.Version),
     GlobalDefaultBucket |-> bucketToProto(DefaultBucketName, c.GlobalDefaultBucket),
     Namespaces          |-> namespaceMapToProto(c.Namespaces, h, o)]

\* every order in which the maps of c can be iterated
Orders(c, h) ==
    {[ns |-> ons, b |-> ob] :
        ons \in Perms(DOMAIN c.Namespaces),
        ob \in {f \in [DOMAIN c.Namespaces -> UNION {Perms(BucketKeys(h[c.Namespaces[k]])) : k \in DOMAIN c.Namespaces}] :
                   \A k \in DOMAIN c.Namespaces : f[k] \in Perms(BucketKeys(h[c.Namespaces[k]]))}}

-----------------------------------------------------------------------------
(* Conversion from the proto representation.  nsc is a nilable pointer to  *)
(* the owning NamespaceConfig: <<>> or <<id>>.                             *)

BucketFromProto(cfg, nsc) ==
    IF cfg = <<>> THEN <<>>
    ELSE <<[Size                |-> cfg[1].Size,
            FillRate            |-> cfg[1].FillRate,
            WaitTimeoutMillis   |-> cfg[1].WaitTimeoutMillis,
            MaxIdleMillis       |-> cfg[1].MaxIdleMillis,
            MaxDebtMillis       |-> cfg[1].MaxDebtMillis,
            MaxTokensPerRequest |-> cfg[1].MaxTokensPerRequest,
            namespace           |-> nsc,
            Name                |-> cfg[1].Name]>>

\* buckets[b.Name] = b for each non-nil element in turn: the last element
\* with a given name is the one the map keeps
bucketsFromProto(cfgs, nsc) ==
    LET idx == {i \in 1..Len(cfgs) : BucketFromProto(cfgs[i], nsc) # <<>>}
        keys == {cfgs[i][1].Name : i \in idx}
        last(k) == CHOOSE i \in idx :
                       /\ cfgs[i][1].Name = k
                       /\ \A j \in idx : cfgs[j][1].Name = k => j <= i
    IN  [k \in keys |-> BucketFromProto(cfgs[last(k)], nsc)[1]]

\* self is the id of the object that n = &NamespaceConfig{...} allocates
NamespaceFromProto(cfg, self) ==
    IF cfg = <<>> THEN <<>>
    ELSE <<[MaxDynamicBuckets     |-> Int32ToInt(cfg[1].MaxDynamicBuckets),
            Name                  |-> cfg[1].Name,
            DefaultBucket         |-> BucketFromProto(cfg[1].DefaultBucket, <<self>>),
            DynamicBucketTemplate |-> BucketFromProto(cfg[1].DynamicBucketTemplate, <<self>>),
            Buckets               |-> <<bucketsFromProto(cfg[1].Buckets, <<self>>)>>]>>

\* the i-th element's object gets id base + i; .m is the map, .h the objects
namespacesFromProto(cfgs, base) ==
    LET idx == {i \in 1..Len(cfgs) : NamespaceFromProto(cfgs[i], base + i) # <<>>}
        keys == {cfgs[i][1].Name : i \in idx}
        last(k) == CHOOSE i \in idx :
                       /\ cfgs[i][1].Name = k
                       /\ \A j \in idx : cfgs[j][1].Name = k => j <= i
    IN  [m |-> [k \in keys |-> base + last(k)],
         h |-> [id \in {base + i : i \in idx} |-> NamespaceFromProto(cfgs[id - base], id)[1]]]

FromProto(cfg, base) ==
    LET globalBucket == BucketFromProto(cfg.GlobalDefaultBucket, <<>>)
        nss == namespacesFromProto(cfg.Namespaces, base)
    IN  [c |-> [GlobalDefaultBucket |-> globalBucket,
                Version             |-> Int32ToInt(cfg.Version),
                Namespaces          |-> nss.m],
         h |-> nss.h]

-----------------------------------------------------------------------------
(* Defaulting *)

\* b.ApplyDefaults(); b.Name = name; b.namespace = ns  (nilable b)
StampBucketKeepName(bp, name, nsc) ==
    IF bp = <<>> THEN <<>>
    ELSE <<[BucketApplyDefaults(bp[1]) EXCEPT !.namespace = nsc]>>

StampBucket(bp, name, nsc) ==
    IF bp = <<>> THEN <<>>
    ELSE <<[BucketApplyDefaults(bp[1]) EXCEPT !.Name = name, !.namespace = nsc]>>

HasBoth(ns) == ns.DefaultBucket # <<>> /\ ns.DynamicBucketTemplate # <<>>

\* the body of the loop over s.Namespaces after the exclusivity check
NamespaceApplyDefaults(ns, name, id) ==
    [Name                  |-> name,
     MaxDynamicBuckets     |-> ns.MaxDynamicBuckets,
     DefaultBucket         |-> StampBucket(ns.DefaultBucket, DefaultBucketName, <<id>>),
     DynamicBucketTemplate |-> StampBucket(ns.DynamicBucketTemplate, DynamicBucketTemplateName, <<id>>),
     Buckets               |->
        IF ns.Buckets = <<>> THEN << <<>> >>
        ELSE <<[n \in DOMAIN ns.Buckets[1] |-> StampBucket(<<ns.Buckets[1][n]>>, n, <<id>>)[1]]>>]

\* ord is the order in which range visits the keys of c.Namespaces.  The
\* result tells whether the call panicked and what the objects hold then.
ServiceApplyDefaultsNoCheck(c, h, ord) ==
    LET ids == {c.Namespaces[k] : k \in DOMAIN c.Namespaces}
        key(id) == CHOOSE k \in DOMAIN c.Namespaces : c.Namespaces[k] = id
    IN  [panicked |-> FALSE,
         c |-> [c EXCEPT !.GlobalDefaultBucket = StampBucket(@, DefaultBucketName, <<>>)],
         h |-> [id \in DOMAIN h |->
                  IF id \in ids THEN NamespaceApplyDefaults(h[id], key(id), id) ELSE h[id]]]

ServiceApplyDefaults(c, h, ord) ==
    LET bad == {i \in 1..Len(ord) : HasBoth(h[c.Namespaces[ord[i]]])}
        stop == IF bad = {} THEN Len(ord) + 1
                ELSE CHOOSE i \in bad : \A j \in bad : i <= j
        pos(id) == CHOOSE i \in 1..Len(ord) : c.Namespaces[ord[i]] = id
        ids == {c.Namespaces[k] : k \in DOMAIN c.Namespaces}
    IN  [panicked |-> bad # {},
         c |-> [c EXCEPT !.GlobalDefaultBucket = StampBucket(@, DefaultBucketName, <<>>)],
         h |-> [id \in DOMAIN h |->
                  IF id \notin ids \/ pos(id) > stop THEN h[id]
                  ELSE IF pos(id) = stop THEN [h[id] EXCEPT !.Name = ord[stop]]
                  ELSE NamespaceApplyDefaults(h[id], ord[pos(id)], id)]]

-----------------------------------------------------------------------------
(* Equality *)

\* proto.Equal: field by field, repeated fields position by position
ProtoEqual(p1, p2) == p1 = p2

-----------------------------------------------------------------------------
(* Inputs: configurations as the YAML reader leaves them (no back-pointers, *)
(* names as the document gives them, unset fields zero).                    *)

NsKeyList == << <<"a">>, <<"b">>, <<"a", "b">>, <<"b", "a">> >>

NsKeys == {NsKeyList[i] : i \in 1..MaxNamespaces}

BucketKeyList == << <<"b">>, <<"a">>, <<"b", "b">>, <<"a", "a">> >>

StaleName == <<"x">>

RawBucket(sz, fr, wt, mi, md, mt, name) ==
    [Size |-> sz, FillRate |-> fr, WaitTimeoutMillis |-> wt, MaxIdleMillis |-> mi,
     MaxDebtMillis |-> md, MaxTokensPerRequest |-> mt, namespace |-> <<>>, Name |-> name]

AllSubsetBuckets ==
    {RawBucket(sz, fr, wt, mi, md, mt, StaleName) :
        sz \in {0, 7}, fr \in {0, 8}, wt \in {0, 9}, mi \in {0, 10}, md \in {0, 11}, mt \in {0, 12}}

ZeroBucket == RawBucket(0, 0, 0, 0, 0, 0, <<>>)

SetBucket == RawBucket(50000, 12345, 20, 67890, 54321, 9876, StaleName)

PartBucket == RawBucket(0, 200, 0, 0, 0, 0, <<>>)

NthBucket(i) == IF i % 2 = 1 THEN PartBucket ELSE SetBucket

BigInt == <<0, 1, 0, 5>>

TwoTo31 == <<0, 0, Limb \div 2, 0>>

NamespaceInputs ==
    {[DefaultBucket |-> <<ZeroBucket>>, DynamicBucketTemplate |-> <<>>,
      MaxDynamicBuckets |-> GoInt(0, 0), Buckets |-> <<>>, Name |-> <<>>],
     [DefaultBucket |-> <<>>, DynamicBucketTemplate |-> <<PartBucket>>,
      MaxDynamicBuckets |-> GoInt(0, 8000),
      Buckets |-> <<[k \in {BucketKeyList[i] : i \in 1..MaxBuckets} |->
                       NthBucket(CHOOSE i \in 1..MaxBuckets : BucketKeyList[i] = k)]>>,
      Name |-> StaleName],
     [DefaultBucket |-> <<SetBucket>>, DynamicBucketTemplate |-> <<ZeroBucket>>,
      MaxDynamicBuckets |-> GoInt(0, 0),
      Buckets |-> <<[k \in {BucketKeyList[1]} |-> ZeroBucket]>>, Name |-> <<>>],
     [DefaultBucket |-> <<>>, DynamicBucketTemplate |-> <<>>,
      MaxDynamicBuckets |-> BigInt, Buckets |-> << <<>> >>, Name |-> <<>>]}

\* the namespace stored under NsKeyList[i] is the object with id i
ServiceInputs ==
    {[c |-> [GlobalDefaultBucket |-> <<g>>, Namespaces |-> <<>>, Version |-> GoInt(0, 0)],
      h |-> <<>>] : g \in AllSubsetBuckets}
    \cup
    {[c |-> [GlobalDefaultBucket |-> gv[1],
             Namespaces |-> [k \in {NsKeyList[i] : i \in DOMAIN h} |->
                               CHOOSE i \in DOMAIN h : NsKeyList[i] = k],
             Version |-> gv[2]],
      h |-> h] :
        gv \in {<< <<>>, GoInt(0, 0)>>, << <<PartBucket>>, GoInt(0, 3)>>, << <<SetBucket>>, TwoTo31>>},
        h \in UNION {[I -> NamespaceInputs] : I \in SUBSET (1..MaxNamespaces)}}

-----------------------------------------------------------------------------
(* Operations of package config *)

AdminIdle == req = <<>> /\ locals = <<>> /\ calls = <<>> /\ w = <<>>

InitConfig ==
    /\ \E in \in ServiceInputs : s = in.c /\ heap = in.h /\ input = in
    /\ pc = "loaded"
    /\ p = <<>>
    /\ s2 = <<>>
    /\ eq = <<>>
    /\ AdminIdle

\* s.ApplyDefaults(), on the loaded configuration and again on its result:
\* returns s, or panics and returns nothing
DoApplyDefaults ==
    /\ pc \in {"loaded", "defaulted", "redefaulted"}
    /\ \E ord \in Perms(DOMAIN s.Namespaces) :
          LET r == ServiceApplyDefaults(s, heap, ord)
          IN  /\ s' = r.c
              /\ heap' = r.h
              /\ pc' = IF r.panicked THEN "panicked"
                       ELSE IF pc = "loaded" THEN "defaulted" ELSE "redefaulted"
    /\ UNCHANGED <<input, p, s2, eq, adminVars>>

\* s.ToProto()
DoToProto ==
    /\ pc \in {"defaulted", "redefaulted"}
    /\ \E o \in Orders(s, heap) : p' = <<ToProto(s, heap, o)>>
    /\ pc' = "proto"
    /\ UNCHANGED <<s, heap, input, s2, eq, adminVars>>

\* FromProto(p): the new NamespaceConfig objects get fresh ids; the message
\* is dropped
DoFromProto ==
    /\ pc = "proto"
    /\ LET used == DOMAIN heap \cup {0}
           r == FromProto(p[1], CHOOSE m \in used : \A id \in used : id <= m)
       IN  /\ s2' = <<r.c>>
           /\ heap' = [id \in DOMAIN heap \cup DOMAIN r.h |->
                         IF id \in DOMAIN heap THEN heap[id] ELSE r.h[id]]
    /\ pc' = "roundtrip"
    /\ p' = <<>>
    /\ UNCHANGED <<s, input, eq, adminVars>>

\* configurations to compare s with: after a round trip s read back, before
\* it s itself and variants that differ from s in the version, in a
\* namespace or in a bucket
OtherKinds ==
    IF s2 # <<>> THEN {[kind |-> "readback", key |-> <<>>]}
    ELSE {[kind |-> "self", key |-> <<>>], [kind |-> "version", key |-> <<>>]}
         \cup {[kind |-> "dropNamespace", key |-> k] : k \in DOMAIN s.Namespaces}
         \cup {[kind |-> "dropBucket", key |-> k] :
                 k \in {k \in DOMAIN s.Namespaces :
                           BucketKeyList[1] \in BucketKeys(heap[s.Namespaces[k]])}}

Other(d) ==
    CASE d.kind = "self" -> [c |-> s, h |-> heap]
      [] d.kind = "version" -> [c |-> [s EXCEPT !.Version = GoInt(0, 9)], h |-> heap]
      [] d.kind = "readback" -> [c |-> s2[1], h |-> heap]
      [] d.kind = "dropNamespace" ->
            [c |-> [s EXCEPT !.Namespaces = [k \in DOMAIN s.Namespaces \ {d.key} |-> s.Namespaces[k]]],
             h |-> heap]
      [] d.kind = "dropBucket" ->
            [c |-> s,
             h |-> [heap EXCEPT ![s.Namespaces[d.key]].Buckets =
                      <<[n \in DOMAIN @[1] \ {BucketKeyList[1]} |-> @[1][n]]>>]]

\* every result s.ToProto() can have
Protos(c, h) == {ToProto(c, h, o) : o \in Orders(c, h)}

\* The results proto.Equal(a, b) can have for a in A and b in B, that is the
\* set {ProtoEqual(a, b) : a \in A, b \in B}, without forming the product:
\* if any pair is equal a common element is, and if any pair differs then a
\* pair with the first element of A or of B does.
ProtoEqualResults(A, B) ==
    {ProtoEqual(a, a) : a \in A \cap B}
    \cup {ProtoEqual(a, b) : a \in {CHOOSE x \in A : TRUE}, b \in B}
    \cup {ProtoEqual(a, b) : a \in A, b \in {CHOOSE y \in B : TRUE}}

\* s.Equals(other), the last step of a run: the two ToProto results are each
\* made by ranging over the maps in an order of its own
DoEquals ==
    /\ pc \in {"defaulted", "redefaulted", "roundtrip"}
    /\ \E d \in OtherKinds :
       \E result \in ProtoEqualResults(Protos(s, heap), Protos(Other(d).c, Other(d).h)) :
          eq' = <<[other |-> d, result |-> result]>>
    /\ pc' = "compared"
    /\ UNCHANGED <<s, heap, input, p, s2, adminVars>>

NextConfig ==
    \/ DoApplyDefaults
    \/ DoToProto
    \/ DoFromProto
    \/ DoEquals

SpecConfig == InitConfig /\ [][NextConfig]_vars

-----------------------------------------------------------------------------
(* Package admin: the REST dispatcher *)

ApiPrefix == <<"/", "a", "p", "i", "/">>

NamespacePrefix == <<"/", "a", "p", "i", "/", "n", "a", "m", "e", "s", "p", "a", "c", "e", "/">>

HasPrefix(str, prefix) ==
    Len(str) >= Len(prefix) /\ SubSeq(str, 1, Len(prefix)) = prefix

TrimPrefix(str, prefix) ==
    IF HasPrefix(str, prefix) THEN SubSeq(str, Len(prefix) + 1, Len(str)) ELSE str

\* strings.Split(str, "/"): one more part than there are separators
RECURSIVE Split(_)
Split(str) ==
    IF \A i \in 1..Len(str) : str[i] # "/" THEN <<str>>
    ELSE LET i == CHOOSE i \in 1..Len(str) :
                      str[i] = "/" /\ \A j \in 1..(i - 1) : str[j] # "/"
         IN  <<SubSeq(str, 1, i - 1)>> \o Split(SubSeq(str, i + 1, Len(str)))

extractNamespaceName(params) ==
    LET parts == Split(params)
    IN  IF Len(parts) < 2
        THEN IF Len(parts) < 1
             THEN [namespace |-> GlobalNamespace, name |-> DefaultBucketName]
             ELSE [namespace |-> parts[1], name |-> DefaultBucketName]
        ELSE [namespace |-> parts[1], name |-> parts[2]]

\* A request body is a reader that fails or yields bytes; bytes are a JSON
\* document of a BucketConfig or of a NamespaceConfig, or are not JSON.
ZeroPbBucket ==
    [Size |-> 0, FillRate |-> 0, WaitTimeoutMillis |-> 0, MaxIdleMillis |-> 0,
     MaxDebtMillis |-> 0, MaxTokensPerRequest |-> 0, Name |-> <<>>]

ZeroPbNamespace ==
    [DefaultBucket |-> <<>>, DynamicBucketTemplate |-> <<>>, MaxDynamicBuckets |-> <<0, 0>>,
     Buckets |-> <<>>, Name |-> <<>>]

\* json.Unmarshal(bytes, c) into a BucketConfig: a syntax error leaves c as it
\* was; of another message's keys only "name" is a key of this one
jsonUnmarshalBucket(bytes, c) ==
    IF ~bytes.wellFormed THEN [e |-> TRUE, c |-> c]
    ELSE IF bytes.kind = "BucketConfig" THEN [e |-> FALSE, c |-> bytes.value]
    ELSE [e |-> FALSE, c |-> [c EXCEPT !.Name = bytes.value.Name]]

jsonUnmarshalNamespace(bytes, c) ==
    IF ~bytes.wellFormed THEN [e |-> TRUE, c |-> c]
    ELSE IF bytes.kind = "NamespaceConfig" THEN [e |-> FALSE, c |-> bytes.value]
    ELSE [e |-> FALSE, c |-> [c EXCEPT !.Name = bytes.value.Name]]

\* the error of json.Unmarshal is dropped
getBucketConfig(r) ==
    IF r.fails THEN [c |-> <<>>, e |-> TRUE]
    ELSE [c |-> <<jsonUnmarshalBucket(r.bytes, ZeroPbBucket).c>>, e |-> FALSE]

getNamespaceConfig(r) ==
    IF r.fails THEN [c |-> <<>>, e |-> TRUE]
    ELSE [c |-> <<jsonUnmarshalNamespace(r.bytes, ZeroPbNamespace).c>>, e |-> FALSE]

\* http.ResponseWriter: the status is 200 unless a header was written
NewResponse == [code |-> 200, text |-> "", json |-> <<>>]

httpError(resp, msg, code) == [resp EXCEPT !.code = code, !.text = msg]

httpNotFound(resp) == httpError(resp, "404 page not found", 404)

jsonMarshal(type, v) == <<[type |-> type, v |-> v]>>

\* o gives the order in which ToProto ranges over the maps
writeConfigsWholeOnly(namespace, resp, o) ==
    [e |-> FALSE, w |-> [resp EXCEPT !.json = jsonMarshal("ServiceConfig", ToProto(s, heap, o))]]

writeConfigs(namespace, resp, o) ==
    IF namespace = <<>> \/ namespace = GlobalNamespace
    THEN [e |-> FALSE,
          w |-> [resp EXCEPT !.json = jsonMarshal("ServiceConfig", ToProto(s, heap, o))]]
    ELSE IF namespace \notin DOMAIN s.Namespaces
         THEN [e |-> TRUE, w |-> resp]
         ELSE [e |-> FALSE,
               w |-> [resp EXCEPT !.json =
                        jsonMarshal("NamespaceConfig",
                                    NamespaceToProto(heap[s.Namespaces[namespace]], o.b[namespace]))]]

Call(op, namespace, name, c, err) ==
    [op |-> op, namespace |-> namespace, name |-> name, c |-> c, err |-> err]

\* The handler: the calls it makes on the store and the response it leaves.
\* err is what the store returns from the call.
apiHandlerServeHTTPPropagating(method, path, r, o, err) ==
    LET nn == extractNamespaceName(TrimPrefix(path, ApiPrefix))
        bc == getBucketConfig(r)
        bad == httpError(NewResponse, "500 bad content", 500)
        done(call) == [locals |-> <<nn>>, calls |-> <<call>>,
                       w |-> IF err THEN bad ELSE NewResponse]
        wc == writeConfigs(nn.namespace, NewResponse, o)
    IN  IF ~HasPrefix(path, ApiPrefix)
        THEN [locals |-> <<>>, calls |-> <<>>, w |-> httpNotFound(NewResponse)]
        ELSE CASE method = "DELETE" ->
                    done(Call("DeleteBucket", nn.namespace, nn.name, <<>>, err))
               [] method = "PUT" /\ ~bc.e ->
                    done(Call("AddBucket", nn.namespace, <<>>, bc.c, err))
               [] method = "POST" /\ ~bc.e ->
                    done(Call("UpdateBucket", nn.namespace, <<>>, bc.c, err))
               [] method = "GET" /\ ~wc.e ->
                    [locals |-> <<nn>>, calls |-> <<>>, w |-> wc.w]
               [] method \in {"PUT", "POST", "GET"} ->
                    [locals |-> <<nn>>, calls |-> <<>>, w |-> bad]
               [] OTHER ->
                    [locals |-> <<nn>>, calls |-> <<>>, w |-> httpNotFound(NewResponse)]

apiHandlerServeHTTP(method, path, r, o, err) ==
    IF HasPrefix(path, ApiPrefix)
    THEN LET params == TrimPrefix(path, ApiPrefix)
             nn == extractNamespaceName(params)
             namespace == nn.namespace
             name == nn.name
             bc == getBucketConfig(r)
             bad == [locals |-> <<nn>>, calls |-> <<>>,
                     w |-> httpError(NewResponse, "500 bad content", 500)]
         IN  CASE method = "DELETE" ->
                    [locals |-> <<nn>>, w |-> NewResponse,
                     calls |-> <<Call("DeleteBucket", namespace, name, <<>>, err)>>]
               [] method = "PUT" ->
                    IF bc.e THEN bad
                    ELSE [locals |-> <<nn>>, w |-> NewResponse,
                          calls |-> <<Call("AddBucket", namespace, <<>>, bc.c, err)>>]
               [] method = "POST" ->
                    IF bc.e THEN bad
                    ELSE [locals |-> <<nn>>, w |-> NewResponse,
                          calls |-> <<Call("UpdateBucket", namespace, <<>>, bc.c, err)>>]
               [] method = "GET" ->
                    LET wc == writeConfigs(namespace, NewResponse, o)
                    IN  IF wc.e THEN bad
                        ELSE [locals |-> <<nn>>, calls |-> <<>>, w |-> wc.w]
               [] OTHER ->
                    [locals |-> <<nn>>, calls |-> <<>>, w |-> httpNotFound(NewResponse)]
    ELSE IF HasPrefix(path, NamespacePrefix)
    THEN LET ns == TrimPrefix(path, NamespacePrefix)
             nc == getNamespaceConfig(r)
             bad == [locals |-> <<>>, calls |-> <<>>,
                     w |-> httpError(NewResponse, "500 bad content", 500)]
         IN  CASE method = "DELETE" ->
                    [locals |-> <<>>, w |-> NewResponse,
                     calls |-> <<Call("DeleteNamespace", ns, <<>>, <<>>, err)>>]
               [] method = "PUT" ->
                    IF nc.e THEN bad
                    ELSE [locals |-> <<>>, w |-> NewResponse,
                          calls |-> <<Call("AddNamespace", <<>>, <<>>, nc.c, err)>>]
               [] method = "POST" ->
                    IF nc.e THEN bad
                    ELSE [locals |-> <<>>, w |-> NewResponse,
                          calls |-> <<Call("UpdateNamespace", <<>>, <<>>, nc.c, err)>>]
               [] OTHER ->
                    [locals |-> <<>>, calls |-> <<>>, w |-> httpNotFound(NewResponse)]
    ELSE [locals |-> <<>>, calls |-> <<>>, w |-> httpNotFound(NewResponse)]

-----------------------------------------------------------------------------
(* Requests and the store behind the Administrable interface *)

Alphabet == {"a", "b", "/"}

ShortParams == UNION {[1..n -> Alphabet] : n \in 0..MaxParamsLen}

Paths ==
    {ApiPrefix \o q : q \in ShortParams}
    \cup {NamespacePrefix \o k : k \in {NsKeyList[i] : i \in 1..MaxNamespaces + 1}}
    \cup {ApiPrefix \o GlobalNamespace, ApiPrefix \o GlobalNamespace \o <<"/", "b">>}
    \cup {<<"/", "a", "p", "i">>, <<"/", "x", "/", "a">>}

Methods == {"DELETE", "PUT", "POST", "GET", "HEAD"}

Mutating == {"DELETE", "PUT", "POST"}

NotJSON == [wellFormed |-> FALSE, kind |-> "", value |-> <<>>]

Bodies ==
    {NotJSON,
     [wellFormed |-> TRUE, kind |-> "BucketConfig",
      value |-> [ZeroPbBucket EXCEPT !.FillRate = 500]],
     [wellFormed |-> TRUE, kind |-> "BucketConfig",
      value |-> BucketToProtoMethod([SetBucket EXCEPT !.Name = <<"b">>])],
     [wellFormed |-> TRUE, kind |-> "NamespaceConfig",
      value |-> [ZeroPbNamespace EXCEPT !.Name = <<"a">>, !.MaxDynamicBuckets = <<0, 8000>>]]}

Readers(method) ==
    IF method \in {"PUT", "POST"}
    THEN {[fails |-> TRUE, bytes |-> NotJSON]} \cup {[fails |-> FALSE, bytes |-> b] : b \in Bodies}
    ELSE {[fails |-> FALSE, bytes |-> NotJSON]}

\* what Configs() may return: defaulted configurations, one for each number
\* of namespaces, with and without buckets
StoreInputs ==
    {in \in ServiceInputs :
        /\ in.c.GlobalDefaultBucket = <<PartBucket>>
        /\ \E n \in 0..MaxNamespaces : DOMAIN in.h = 1..n
        /\ \A id \in DOMAIN in.h :
              IF id % 2 = 1 THEN in.h[id].DefaultBucket # <<>> /\ ~HasBoth(in.h[id])
              ELSE in.h[id].DynamicBucketTemplate # <<>> /\ ~HasBoth(in.h[id])}

StoreConfigs ==
    {[c |-> ServiceApplyDefaults(in.c, in.h, CHOOSE ord \in Perms(DOMAIN in.c.Namespaces) : TRUE).c,
      h |-> ServiceApplyDefaults(in.c, in.h, CHOOSE ord \in Perms(DOMAIN in.c.Namespaces) : TRUE).h] :
        in \in StoreInputs}

ConfigIdle ==
    pc = "serving" /\ input = <<>> /\ p = <<>> /\ s2 = <<>> /\ eq = <<>>

Init ==
    /\ \E st \in StoreConfigs : s = st.c /\ heap = st.h
    /\ AdminIdle
    /\ ConfigIdle

\* One request, served from start to end.  A call on the store returns err
\* and leaves the store with a configuration of its choosing: the interface
\* fixes neither.
ServeHTTP ==
    /\ w = <<>>
    /\ \E method \in Methods, path \in Paths :
       \E r \in Readers(method) :
       \E o \in IF method = "GET" THEN Orders(s, heap)
                ELSE {CHOOSE o \in Orders(s, heap) : TRUE} :
       \E err \in IF method \in Mutating THEN BOOLEAN ELSE {FALSE} :
       \E after \in IF method \in Mutating THEN StoreConfigs ELSE {[c |-> s, h |-> heap]} :
          LET res == apiHandlerServeHTTP(method, path, r, o, err)
          IN  /\ req' = <<[method |-> method, path |-> path, body |-> r]>>
              /\ locals' = res.locals
              /\ calls' = res.calls
              /\ w' = <<res.w>>
              /\ IF res.calls = <<>>
                 THEN UNCHANGED <<s, heap>>
                 ELSE s' = after.c /\ heap' = after.h
    /\ UNCHANGED configVars

\* the response is sent and the exchange is over
Respond ==
    /\ w # <<>>
    /\ req' = <<>>
    /\ locals' = <<>>
    /\ calls' = <<>>
    /\ w' = <<>>
    /\ UNCHANGED <<s, heap, configVars>>

Next ==
    \/ ServeHTTP
    \/ Respond

Spec == Init /\ [][Next]_vars

-----------------------------------------------------------------------------
(* Properties of the dispatcher, checked under Spec *)

Served == w # <<>>

OnApi == Served /\ HasPrefix(req[1].path, ApiPrefix)

OnNamespaceAddress == Served /\ HasPrefix(req[1].path, NamespacePrefix)

OnBucketAddress == OnApi /\ ~OnNamespaceAddress

CallOps == {calls[i].op : i \in DOMAIN calls}

\* C1: a PUT or POST under /api/ whose body is not well-formed JSON gets a
\* 500 response and no operation of the store is invoked.
C1_MalformedBodyRejected ==
    (/\ OnApi
     /\ req[1].method \in {"PUT", "POST"}
     /\ ~req[1].body.fails
     /\ ~req[1].body.bytes.wellFormed)
    => (w[1].code = 500 /\ calls = <<>>)

\* C2: a request on /api/namespace/<name> is a namespace request: PUT calls
\* AddNamespace, POST calls UpdateNamespace, DELETE calls DeleteNamespace for
\* <name>, and no bucket operation is invoked.
C2_NamespaceAddress ==
    OnNamespaceAddress =>
       LET name == TrimPrefix(req[1].path, NamespacePrefix)
           decodable == ~req[1].body.fails /\ req[1].body.bytes.wellFormed
       IN  /\ CallOps \cap {"AddBucket", "UpdateBucket", "DeleteBucket"} = {}
           /\ (req[1].method = "PUT" /\ decodable) => CallOps = {"AddNamespace"}
           /\ (req[1].method = "POST" /\ decodable) => CallOps = {"UpdateNamespace"}
           /\ req[1].method = "DELETE" =>
                 (Len(calls) = 1 /\ calls[1].op = "DeleteNamespace" /\ calls[1].namespace = name)

\* the segments of the path remainder: none for the empty remainder
Segments(params) == IF params = <<>> THEN <<>> ELSE Split(params)

\* C3: the remainder of the path after /api/ resolves to (global namespace,
\* default bucket) when it has no segment, to (segment 1, default bucket)
\* when it has one, and to (segment 1, segment 2) when it has two or more.
C3_AddressingTable ==
    OnApi =>
       LET seg == Segments(TrimPrefix(req[1].path, ApiPrefix))
       IN  locals = <<IF Len(seg) = 0
                      THEN [namespace |-> GlobalNamespace, name |-> DefaultBucketName]
                      ELSE IF Len(seg) = 1
                      THEN [namespace |-> seg[1], name |-> DefaultBucketName]
                      ELSE [namespace |-> seg[1], name |-> seg[2]]>>

\* C4: a PUT (POST) on a bucket address with a decodable bucket body asks the
\* store to add (update) the bucket named by the path's bucket segment, in the
\* path's namespace, whatever name the body carries.
C4_WriteAtResolvedAddress ==
    (/\ OnBucketAddress
     /\ req[1].method \in {"PUT", "POST"}
     /\ ~req[1].body.fails
     /\ req[1].body.bytes.wellFormed
     /\ req[1].body.bytes.kind = "BucketConfig")
    => /\ Len(calls) = 1
       /\ calls[1].op = IF req[1].method = "PUT" THEN "AddBucket" ELSE "UpdateBucket"
       /\ calls[1].namespace = locals[1].namespace
       /\ calls[1].c[1].Name = locals[1].name

\* C5: a GET on a bucket address answers with the whole ServiceConfig when the
\* resolved namespace is empty or the global sentinel, with the namespace's
\* NamespaceConfig when the namespace is a key of the store's mapping, and
\* with status 500 and no configuration otherwise; it calls nothing on the store.
C5_GetResponse ==
    (OnApi /\ req[1].method = "GET") =>
       LET ns == locals[1].namespace
       IN  /\ calls = <<>>
           /\ IF ns = <<>> \/ ns = GlobalNamespace
              THEN /\ w[1].code = 200
                   /\ \E pr \in Protos(s, heap) :
                         w[1].json = <<[type |-> "ServiceConfig", v |-> pr]>>
              ELSE IF ns \in DOMAIN s.Namespaces
              THEN /\ w[1].code = 200
                   /\ \E ord \in Perms(BucketKeys(heap[s.Namespaces[ns]])) :
                         w[1].json = <<[type |-> "NamespaceConfig",
                                        v |-> NamespaceToProto(heap[s.Namespaces[ns]], ord)]>>
              ELSE w[1].code = 500 /\ w[1].json = <<>>

\* a GET of a namespace of the store that has buckets was answered
C5_Witness ==
    /\ OnApi
    /\ req[1].method = "GET"
    /\ locals[1].namespace \in DOMAIN s.Namespaces
    /\ BucketKeys(heap[s.Namespaces[locals[1].namespace]]) # {}
    /\ w[1].code = 200
    /\ w[1].json # <<>>

\* a PUT, POST or DELETE under /api/ whose body, if it has one, was read and
\* is well-formed JSON
MutationRequest ==
    /\ OnApi
    /\ req[1].method \in Mutating
    /\ req[1].method \in {"PUT", "POST"} =>
          (~req[1].body.fails /\ req[1].body.bytes.wellFormed)

\* C11: a mutation request (DELETE, or PUT/POST with a decodable body) invokes
\* exactly one operation of the store, and when that operation returns an
\* error the response is the one of a successful operation: status 200, no
\* error text, nothing written.
C11_StoreErrorNotPropagated ==
    MutationRequest =>
       /\ Len(calls) = 1
       /\ calls[1].err =>
             /\ w[1] = NewResponse
             /\ w[1] = apiHandlerServeHTTP(req[1].method, req[1].path, req[1].body,
                                           [ns |-> <<>>, b |-> <<>>], FALSE).w

\* an AddBucket with a decodable body failed in the store and was answered
C11_Witness ==
    /\ MutationRequest
    /\ req[1].method = "PUT"
    /\ req[1].body.bytes.kind = "BucketConfig"
    /\ Len(calls) = 1
    /\ calls[1].op = "AddBucket"
    /\ calls[1].err
    /\ w[1].code = 200

-----------------------------------------------------------------------------
(* Properties of the configuration model, checked under SpecConfig *)

Returned == pc \in {"defaulted", "redefaulted", "proto", "roundtrip", "compared"}

\* b is b0 with every unset field filled and every set field kept
Filled(b, b0) ==
    /\ b.Size = (IF b0.Size = 0 THEN 100 ELSE b0.Size)
    /\ b.FillRate = (IF b0.FillRate = 0 THEN 50 ELSE b0.FillRate)
    /\ b.WaitTimeoutMillis = (IF b0.WaitTimeoutMillis = 0 THEN 1000 ELSE b0.WaitTimeoutMillis)
    /\ b.MaxIdleMillis = (IF b0.MaxIdleMillis = 0 THEN -1 ELSE b0.MaxIdleMillis)
    /\ b.MaxDebtMillis = (IF b0.MaxDebtMillis = 0 THEN 10000 ELSE b0.MaxDebtMillis)
    /\ b.MaxTokensPerRequest =
          (IF b0.MaxTokensPerRequest = 0 THEN b.FillRate ELSE b0.MaxTokensPerRequest)
    /\ 0 \notin {b.Size, b.FillRate, b.WaitTimeoutMillis, b.MaxIdleMillis,
                 b.MaxDebtMillis, b.MaxTokensPerRequest}

FilledOpt(bp, bp0) == Len(bp) = Len(bp0) /\ \A i \in DOMAIN bp : Filled(bp[i], bp0[i])

AllFilled ==
    /\ FilledOpt(s.GlobalDefaultBucket, input.c.GlobalDefaultBucket)
    /\ \A k \in DOMAIN s.Namespaces :
          LET n == heap[s.Namespaces[k]]
              n0 == input.h[input.c.Namespaces[k]]
          IN  /\ FilledOpt(n.DefaultBucket, n0.DefaultBucket)
              /\ FilledOpt(n.DynamicBucketTemplate, n0.DynamicBucketTemplate)
              /\ BucketKeys(n) = BucketKeys(n0)
              /\ \A b \in BucketKeys(n) : Filled(n.Buckets[1][b], n0.Buckets[1][b])

\* C6: after ApplyDefaults every bucket reachable from the ServiceConfig has
\* each unset field at its default (max_tokens_per_request at the resulting
\* fill rate), each set field at its value and no field zero; and a further
\* ApplyDefaults changes nothing.
C6_DefaultingTotalIdempotent ==
    /\ [](Returned => AllFilled)
    /\ [][(pc \in {"defaulted", "redefaulted"} /\ pc' = "redefaulted")
             => (s' = s /\ heap' = heap)]_vars

\* ApplyDefaults ran twice on a bucket with set and unset fields
C6_Witness ==
    /\ pc = "redefaulted"
    /\ input.c.GlobalDefaultBucket # <<>>
    /\ input.c.GlobalDefaultBucket[1].Size = 0
    /\ input.c.GlobalDefaultBucket[1].FillRate = 8
    /\ input.c.GlobalDefaultBucket[1].MaxTokensPerRequest = 0
    /\ s.GlobalDefaultBucket[1].MaxTokensPerRequest = 8

Conflicting == \E id \in DOMAIN input.h : HasBoth(input.h[id])

\* C7: ApplyDefaults panics and returns no configuration when some namespace
\* has both a default bucket and a dynamic-bucket template, whatever the
\* other namespaces hold; it returns when no namespace has both.
C7_MutualExclusivity ==
    /\ pc = "panicked" => Conflicting
    /\ Returned => ~Conflicting

\* the panic came after another namespace had been defaulted in place
C7_Witness ==
    /\ pc = "panicked"
    /\ \E k \in DOMAIN s.Namespaces :
          LET n == heap[s.Namespaces[k]]
          IN  ~HasBoth(n) /\ n.Name = k /\ n.Buckets # <<>> /\ n # input.h[s.Namespaces[k]]

\* what a configuration holds, whatever the order of its maps and whatever
\* objects its pointers lead to
BucketFields(b) ==
    <<b.Name, b.Size, b.FillRate, b.WaitTimeoutMillis, b.MaxIdleMillis, b.MaxDebtMillis,
      b.MaxTokensPerRequest>>

OptFields(bp) == [i \in DOMAIN bp |-> BucketFields(bp[i])]

NsContents(n) ==
    [Name                  |-> n.Name,
     MaxDynamicBuckets     |-> n.MaxDynamicBuckets,
     DefaultBucket         |-> OptFields(n.DefaultBucket),
     DynamicBucketTemplate |-> OptFields(n.DynamicBucketTemplate),
     Buckets               |-> {<<k, BucketFields(n.Buckets[1][k])>> : k \in BucketKeys(n)}]

Contents(c, h) ==
    [Version             |-> c.Version,
     GlobalDefaultBucket |-> OptFields(c.GlobalDefaultBucket),
     Namespaces          |-> {<<k, NsContents(h[c.Namespaces[k]])>> : k \in DOMAIN c.Namespaces}]

\* every bucket of c points back to the namespace object that holds it
BackRefsOwned(c, h) ==
    /\ \A i \in DOMAIN c.GlobalDefaultBucket : c.GlobalDefaultBucket[i].namespace = <<>>
    /\ \A k \in DOMAIN c.Namespaces :
          LET id == c.Namespaces[k]
          IN  /\ \A i \in DOMAIN h[id].DefaultBucket : h[id].DefaultBucket[i].namespace = <<id>>
              /\ \A i \in DOMAIN h[id].DynamicBucketTemplate :
                    h[id].DynamicBucketTemplate[i].namespace = <<id>>
              /\ \A b \in BucketKeys(h[id]) : h[id].Buckets[1][b].namespace = <<id>>

\* C8: FromProto(ToProto(C)) of a defaulted C holds the same version, global
\* default bucket, namespace names and, per namespace, the same default
\* bucket, template, max_dynamic_buckets and (bucket name, fields) pairs,
\* and every bucket points back to its owning namespace.
C8_RoundTrip ==
    pc = "roundtrip" =>
       /\ Contents(s2[1], heap) = Contents(s, heap)
       /\ BackRefsOwned(s2[1], heap)

\* the round trip of a configuration whose version and max_dynamic_buckets
\* are int32 values: the narrowing to the wire type is then the only loss
RoundTripWithinInt32 ==
    (/\ pc = "roundtrip"
     /\ FitsInt32(s.Version)
     /\ \A k \in DOMAIN s.Namespaces : FitsInt32(heap[s.Namespaces[k]].MaxDynamicBuckets))
    => /\ Contents(s2[1], heap) = Contents(s, heap)
       /\ BackRefsOwned(s2[1], heap)

\* C9: Equals is true of two configurations that hold the same contents,
\* whatever the order the maps are iterated in, and false of two that differ.
C9_EqualsOrderIndependent ==
    eq # <<>> =>
       eq[1].result = (Contents(s, heap) = Contents(Other(eq[1].other).c, Other(eq[1].other).h))

ExpectedFQNs(c, h) ==
    /\ \A i \in DOMAIN c.GlobalDefaultBucket :
          FQN(c.GlobalDefaultBucket[i], h) = GlobalNamespace \o <<":">> \o DefaultBucketName
    /\ \A k \in DOMAIN c.Namespaces :
          LET n == h[c.Namespaces[k]]
          IN  /\ \A i \in DOMAIN n.DefaultBucket :
                    FQN(n.DefaultBucket[i], h) = k \o <<":">> \o DefaultBucketName
              /\ \A i \in DOMAIN n.DynamicBucketTemplate :
                    FQN(n.DynamicBucketTemplate[i], h) = k \o <<":">> \o DynamicBucketTemplateName
              /\ \A b \in BucketKeys(n) : FQN(n.Buckets[1][b], h) = k \o <<":">> \o b

\* C10: in a defaulted ServiceConfig the FQN of the global default bucket is
\* <global>:<default>, of a namespace's default bucket <ns>:<default>, of its
\* template <ns>:<template>, of an explicit bucket <ns>:<key>, whatever names
\* the input carried; and the configuration read back after ToProto and
\* FromProto has the same buckets with the same FQNs.
C10_FQN ==
    /\ Returned => ExpectedFQNs(s, heap)
    /\ pc = "roundtrip" =>
          /\ DOMAIN s2[1].Namespaces = DOMAIN s.Namespaces
          /\ \A k \in DOMAIN s.Namespaces :
                BucketKeys(heap[s2[1].Namespaces[k]]) = BucketKeys(heap[s.Namespaces[k]])
          /\ ExpectedFQNs(s2[1], heap)

\* a configuration whose namespace and buckets carried other names in the
\* input was defaulted, written and read back
C10_Witness ==
    /\ pc = "roundtrip"
    /\ \E k \in DOMAIN s.Namespaces :
          LET n0 == input.h[input.c.Namespaces[k]]
          IN  /\ n0.Name = StaleName
              /\ \E b \in BucketKeys(n0) : n0.Buckets[1][b].Name = StaleName
              /\ n0.DynamicBucketTemplate # <<>>

====
